---------------------------- MODULE Spec2Model ----------------------------
(***************************************************************************)
(* Order lifecycle, order creation / pricing and restaurant verification   *)
(* workflow of the QR-menu application, modelled from the Django sources.  *)
(*                                                                         *)
(* Money is counted in cents (DecimalField with decimal_places=2), rates   *)
(* in hundredths of a percent (DecimalField(5,2)), a NULL timestamp is     *)
(* None and a set timestamp is the value the clock had when it was taken.  *)
(* The database rows are the state; a request that is between two of its   *)
(* database statements keeps what it loaded in req / creq.                 *)
(***************************************************************************)
EXTENDS Integers, Sequences, FiniteSets, TLC

VARIABLES
    now,          \* timezone.now()
    orders,       \* table orders_order: sequence of rows, the id is the index
    items,        \* table orders_orderitem
    dishes,       \* table menu_dish: dish id -> row
    options,      \* table menu_dishoption: option id -> row
    restaurant,   \* pricing fields of the RestaurantProfile rows: id -> row
    db_rounding,  \* how the database backend rounds a decimal it stores
    req,          \* an order request between its SELECT and its UPDATE
    creq,         \* an order-creation request between two of its statements
    verifs,       \* table verification_restaurantverification
    profiles,     \* table restaurants_restaurantprofile
    settings,     \* table restaurants_restaurantsettings (profile ids)
    is_restaurant_owner, \* accounts user flag: user -> BOOLEAN
    vreq,         \* a verification admin request between SELECT and UPDATE
    response      \* what the last handler answered

vars == <<now, orders, items, dishes, options, restaurant, db_rounding, req,
          creq, verifs, profiles, settings, is_restaurant_owner, vreq,
          response>>

orderVars == <<orders, items, req, creq>>
catalogVars == <<dishes, options, restaurant, db_rounding>>
verifVars == <<verifs, profiles, settings, is_restaurant_owner, vreq>>

---------------------------------------------------------------------------
(* Bounds *)

MaxNow == 2

None == 0

Times == 1..MaxNow

---------------------------------------------------------------------------
(* orders/models.py: Order *)

STATUS_CHOICES == {"pending", "confirmed", "preparing", "ready", "completed",
                   "cancelled"}

PAYMENT_METHOD_CHOICES == {"cash", "card", "online"}

\* Statuses a request may name: the six choices and one that is none of them.
StatusInputs == STATUS_CHOICES \cup {"bogus"}

\* Payment methods a request may name ('' is "not given").
MethodInputs == {"", "cash", "card"}

\* Customer info, table number and special requests as one abstract value.
CustomerInputs == {"alice", "bob"}

Idle == [pc |-> "idle"]

\* A save() without update_fields: UPDATE of every column of the instance.
save_all_fields(cur, inst, fields) == inst

\* Model.save(update_fields=fields): UPDATE of the named columns only.
save_update_fields(cur, inst, fields) ==
    [f \in DOMAIN cur |-> IF f \in fields THEN inst[f] ELSE cur[f]]

can_cancel(order) == order.status \in {"pending", "confirmed"}

can_modify(order) == order.status = "pending"

\* Order.update_status on the loaded instance: the instance after the call.
update_status(inst, new_status, t) ==
    [inst EXCEPT
        !.status = new_status,
        !.confirmed_at = IF new_status = "confirmed" /\ inst.status = "pending"
                         THEN t ELSE @,
        !.completed_at = IF new_status = "completed" THEN t ELSE @,
        !.cancelled_at = IF new_status = "cancelled" THEN t ELSE @]

StatusFields == {"status", "confirmed_at", "completed_at", "cancelled_at"}

PaymentFields == {"is_paid", "paid_at", "payment_method"}

\* Order.mark_as_paid on the loaded instance.
mark_as_paid(inst, payment_method, t) ==
    [inst EXCEPT
        !.is_paid = TRUE,
        !.paid_at = t,
        !.payment_method = IF payment_method # "" THEN payment_method ELSE @]

---------------------------------------------------------------------------
(* orders/views.py, orders/forms.py, orders/admin.py: what each handler    *)
(* writes, given the instance it loaded and the row as it is now.          *)

\* OrderStatusUpdateView.post and OrderStatusAPIView.post have the same body.
StatusPostAccepted(new_status) == new_status \in STATUS_CHOICES

StatusPostRow(inst, cur, new_status, t) ==
    IF StatusPostAccepted(new_status)
    THEN save_update_fields(cur, update_status(inst, new_status, t), StatusFields)
    ELSE cur

\* OrderPaymentUpdateView.post
PaymentPostRow(inst, cur, payment_method, t) ==
    IF ~inst.is_paid
    THEN save_update_fields(cur, mark_as_paid(inst, payment_method, t), PaymentFields)
    ELSE save_update_fields(cur,
            [inst EXCEPT !.is_paid = FALSE, !.paid_at = None, !.payment_method = ""],
            PaymentFields)

\* OrderUpdateForm.__init__: the statuses the form offers.
allowed_statuses(current_status) ==
    CASE current_status = "pending"   -> {"pending", "confirmed", "cancelled"}
      [] current_status = "confirmed" -> {"confirmed", "preparing", "cancelled"}
      [] current_status = "preparing" -> {"preparing", "ready", "cancelled"}
      [] current_status = "ready"     -> {"ready", "completed"}
      [] current_status \in {"completed", "cancelled"} -> {current_status}
      [] OTHER -> STATUS_CHOICES

\* OrderUpdateForm.clean_status: TRUE when it raises no ValidationError.
clean_status(inst, status) ==
    ~(~can_modify(inst) /\ status # inst.status
      /\ inst.status \notin {"pending", "confirmed", "preparing", "ready"})

\* OrderUpdateForm.is_valid on the posted data.
OrderUpdateFormValid(inst, data) ==
    /\ data.status \in allowed_statuses(inst.status)
    /\ clean_status(inst, data.status)
    /\ data.payment_method \in PAYMENT_METHOD_CHOICES \cup {""}

\* OrderUpdateView.post: ModelForm.save() writes every column of the instance.
OrderUpdateRow(inst, cur, data) ==
    IF OrderUpdateFormValid(inst, data)
    THEN [inst EXCEPT !.customer = data.customer,
                      !.status = data.status,
                      !.payment_method = data.payment_method,
                      !.is_paid = data.is_paid]
    ELSE cur

OrderUpdateData ==
    [customer : CustomerInputs, status : StatusInputs,
     payment_method : MethodInputs, is_paid : BOOLEAN]

\* OrderAdmin.mark_as_confirmed / _preparing / _ready / _completed:
\* the status the action filters on and the status it sets.
AdminActions ==
    { <<"mark_as_confirmed", "pending", "confirmed">>,
      <<"mark_as_preparing", "confirmed", "preparing">>,
      <<"mark_as_ready", "preparing", "ready">>,
      <<"mark_as_completed", "ready", "completed">> }

AdminActionRow(inst, cur, act, t) ==
    save_update_fields(cur, update_status(inst, act[3], t), StatusFields)

---------------------------------------------------------------------------
(* Actions: one request handled from its SELECT to its UPDATE.             *)

Reply(handler, outcome) == [handler |-> handler, outcome |-> outcome]

SetOrder(o, row) == orders' = [orders EXCEPT ![o] = row]

Tick ==
    /\ now < MaxNow
    /\ now' = now + 1
    /\ UNCHANGED <<orderVars, catalogVars, verifVars, response>>

OrderStatusUpdateView_post(o, new_status) ==
    /\ SetOrder(o, StatusPostRow(orders[o], orders[o], new_status, now))
    /\ response' = Reply("OrderStatusUpdateView",
                         IF StatusPostAccepted(new_status) THEN "ok" ELSE "error")
    /\ UNCHANGED <<now, items, req, creq, catalogVars, verifVars>>

OrderStatusAPIView_post(o, new_status) ==
    /\ SetOrder(o, StatusPostRow(orders[o], orders[o], new_status, now))
    /\ response' = Reply("OrderStatusAPIView",
                         IF StatusPostAccepted(new_status) THEN "ok" ELSE "error")
    /\ UNCHANGED <<now, items, req, creq, catalogVars, verifVars>>

OrderPaymentUpdateView_post(o, payment_method) ==
    /\ SetOrder(o, PaymentPostRow(orders[o], orders[o], payment_method, now))
    /\ response' = Reply("OrderPaymentUpdateView", "ok")
    /\ UNCHANGED <<now, items, req, creq, catalogVars, verifVars>>

OrderUpdateView_post(o, data) ==
    /\ SetOrder(o, OrderUpdateRow(orders[o], orders[o], data))
    /\ response' = Reply("OrderUpdateView",
                         IF OrderUpdateFormValid(orders[o], data) THEN "ok" ELSE "error")
    /\ UNCHANGED <<now, items, req, creq, catalogVars, verifVars>>

OrderAdmin_action(o, act) ==
    /\ orders[o].status = act[2]
    /\ SetOrder(o, AdminActionRow(orders[o], orders[o], act, now))
    /\ response' = Reply(act[1], "ok")
    /\ UNCHANGED <<now, items, req, creq, catalogVars, verifVars>>


---------------------------------------------------------------------------
(* The same handlers with another request between their SELECT and their   *)
(* UPDATE: get_object() loads the row, the handler writes later.           *)

\* get_object() of the two status views
StatusView_get_object(o, handler) ==
    /\ req = Idle
    /\ handler \in {"OrderStatusUpdateView", "OrderStatusAPIView"}
    /\ req' = [pc |-> "loaded", handler |-> handler, order |-> o,
               inst |-> orders[o], act |-> <<>>]
    /\ UNCHANGED <<now, orders, items, creq, catalogVars, verifVars, response>>

\* queryset.filter(status=...) of an admin bulk action
OrderAdmin_queryset(o, act) ==
    /\ req = Idle
    /\ orders[o].status = act[2]
    /\ req' = [pc |-> "loaded", handler |-> act[1], order |-> o,
               inst |-> orders[o], act |-> act]
    /\ UNCHANGED <<now, orders, items, creq, catalogVars, verifVars, response>>

\* order.update_status(new_status) of a status view that has loaded its order
StatusView_update_status(new_status) ==
    /\ req.pc = "loaded"
    /\ req.handler \in {"OrderStatusUpdateView", "OrderStatusAPIView"}
    /\ SetOrder(req.order, StatusPostRow(req.inst, orders[req.order], new_status, now))
    /\ response' = Reply(req.handler,
                         IF StatusPostAccepted(new_status) THEN "ok" ELSE "error")
    /\ req' = Idle
    /\ UNCHANGED <<now, items, creq, catalogVars, verifVars>>

\* order.update_status(...) inside the loop of an admin bulk action
OrderAdmin_update_status ==
    /\ req.pc = "loaded"
    /\ req.act \in AdminActions
    /\ SetOrder(req.order, AdminActionRow(req.inst, orders[req.order], req.act, now))
    /\ response' = Reply(req.handler, "ok")
    /\ req' = Idle
    /\ UNCHANGED <<now, items, creq, catalogVars, verifVars>>


---------------------------------------------------------------------------
(* verification/models.py, restaurants/models.py                           *)

Users == {"u1", "u2"}

VERIFICATION_STATUS_CHOICES == {"pending", "approved", "rejected", "requires_changes"}

\* Application details a form may carry.  The forms refuse a blank name,
\* address or phone; email and description may be blank.
FirstDetails ==
    [restaurant_name |-> "cafe", address |-> "a1", phone |-> "p1",
     email |-> "", description |-> ""]

DetailInputs == {FirstDetails, [FirstDetails EXCEPT !.description = "new"]}

\* Comments an administrator may type.
CommentInputs == {"", "fix"}

BULK_APPROVED == "bulk_approved"

BULK_REJECTED == "bulk_rejected"

BULK_CHANGES == "bulk_changes"

UPDATED_BY_USER == "updated_by_user"

HasVerification(vs, u) == \E v \in DOMAIN vs : vs[v].user = u

VerificationOf(vs, u) == CHOOSE v \in DOMAIN vs : vs[v].user = u

HasProfile(ps, u) == \E i \in DOMAIN ps : ps[i].user = u

\* The profile table without the unique constraint on user.
ProfileInsertOK_NoUnique(ps, u) == TRUE

\* RestaurantProfile.user is a OneToOneField: the INSERT violates the unique
\* constraint (IntegrityError) when the user already has a profile row.
ProfileInsertOK(ps, u) == ~HasProfile(ps, u)

\* RestaurantVerification.user is a OneToOneField as well.
VerificationInsertOK(vs, u) == ~HasVerification(vs, u)

\* RestaurantSettings.restaurant is a OneToOneField.
SettingsInsertOK(st, i) == i \notin st

\* The database as the verification methods see it.
Db(vs, ps, st, ow) == [verifs |-> vs, profiles |-> ps, settings |-> st, owner |-> ow]

CurrentDb == Db(verifs, profiles, settings, is_restaurant_owner)

\* RestaurantVerification.approve: self.save(), then the profile INSERT, the
\* settings INSERT and user.save(), each its own statement.  The result is
\* the database after the call, the instance, and whether the call raised.
approve(db, v, inst, admin_comment, t) ==
    LET obj == [inst EXCEPT !.status = "approved", !.reviewed_at = t,
                            !.admin_comment = admin_comment]
        vs1 == [db.verifs EXCEPT ![v] = obj]
        ps1 == Append(db.profiles,
                      [user |-> obj.user, name |-> obj.details.restaurant_name,
                       description |-> obj.details.description,
                       address |-> obj.details.address,
                       phone |-> obj.details.phone,
                       email |-> IF obj.details.email # "" THEN obj.details.email
                                 ELSE obj.user])
        rid == Len(ps1)
    IN  IF ~ProfileInsertOK(db.profiles, obj.user)
        THEN [db |-> [db EXCEPT !.verifs = vs1], obj |-> obj, raised |-> TRUE]
        ELSE IF ~SettingsInsertOK(db.settings, rid)
        THEN [db |-> [db EXCEPT !.verifs = vs1, !.profiles = ps1],
              obj |-> obj, raised |-> TRUE]
        ELSE [db |-> [verifs |-> vs1, profiles |-> ps1,
                      settings |-> db.settings \cup {rid},
                      owner |-> [db.owner EXCEPT ![obj.user] = TRUE]],
              obj |-> obj, raised |-> FALSE]

\* RestaurantVerification.reject
reject(db, v, inst, admin_comment, t) ==
    LET obj == [inst EXCEPT !.status = "rejected", !.reviewed_at = t,
                            !.admin_comment = admin_comment]
    IN  [db |-> [db EXCEPT !.verifs = [db.verifs EXCEPT ![v] = obj]],
         obj |-> obj, raised |-> FALSE]

\* RestaurantVerification.request_changes
request_changes(db, v, inst, admin_comment) ==
    LET obj == [inst EXCEPT !.status = "requires_changes",
                            !.admin_comment = admin_comment]
    IN  [db |-> [db EXCEPT !.verifs = [db.verifs EXCEPT ![v] = obj]],
         obj |-> obj, raised |-> FALSE]

SetDb(db) ==
    /\ verifs' = db.verifs
    /\ profiles' = db.profiles
    /\ settings' = db.settings
    /\ is_restaurant_owner' = db.owner


---------------------------------------------------------------------------
(* accounts/views.py, verification/views.py, verification/admin.py,        *)
(* restaurants/views.py: the handlers.                                     *)

Registered(u) == u \in DOMAIN is_restaurant_owner

NewVerification(u, d) ==
    [user |-> u, details |-> d, status |-> "pending", admin_comment |-> "",
     reviewed_at |-> None]

\* ModelForm construct_instance: the form's cleaned fields are set on the
\* instance the view loaded, before form_valid runs.
WithDetails(inst, d) == [inst EXCEPT !.details = d]

\* An emptiness test that takes every application for an empty one.
is_empty_application_Always(obj) == TRUE

\* was_empty of RestaurantVerificationUpdateView.form_valid: name, address
\* and phone of the instance are all blank.
is_empty_application(obj) ==
    /\ obj.details.restaurant_name = ""
    /\ obj.details.address = ""
    /\ obj.details.phone = ""

\* SignUpView.form_valid: the user row, and for an owner the application
\* with the name, address and phone of the registration form.
SignUpView_form_valid(u, owner, d) ==
    /\ ~Registered(u)
    /\ is_restaurant_owner' = [x \in DOMAIN is_restaurant_owner \cup {u} |->
                                  IF x = u THEN owner ELSE is_restaurant_owner[x]]
    /\ verifs' = IF owner /\ VerificationInsertOK(verifs, u)
                 THEN Append(verifs,
                             NewVerification(u, [d EXCEPT !.email = "", !.description = ""]))
                 ELSE verifs
    /\ response' = Reply("SignUpView", "ok")
    /\ UNCHANGED <<now, orderVars, catalogVars, profiles, settings, vreq>>

\* RestaurantVerificationCreateView: dispatch, then CreateView.form_valid
RestaurantVerificationCreateView_post(u, d) ==
    /\ Registered(u)
    /\ IF ~is_restaurant_owner[u]
       THEN /\ response' = Reply("RestaurantVerificationCreateView", "denied")
            /\ UNCHANGED verifs
       ELSE IF HasVerification(verifs, u)
               /\ verifs[VerificationOf(verifs, u)].status
                     \in {"pending", "approved", "requires_changes"}
       THEN /\ response' = Reply("RestaurantVerificationCreateView", "redirect")
            /\ UNCHANGED verifs
       ELSE IF VerificationInsertOK(verifs, u)
       THEN /\ verifs' = Append(verifs, NewVerification(u, d))
            /\ response' = Reply("RestaurantVerificationCreateView", "ok")
       ELSE /\ response' = Reply("RestaurantVerificationCreateView", "error")
            /\ UNCHANGED verifs
    /\ UNCHANGED <<now, orderVars, catalogVars, profiles, settings,
                   is_restaurant_owner, vreq>>

\* RestaurantVerificationUpdateView: dispatch, then form_valid
RestaurantVerificationUpdateView_post(u, d) ==
    /\ Registered(u)
    /\ IF ~HasVerification(verifs, u)
       THEN /\ response' = Reply("RestaurantVerificationUpdateView", "not_found")
            /\ UNCHANGED verifs
       ELSE LET v == VerificationOf(verifs, u)
                obj == WithDetails(verifs[v], d)
                was_empty == is_empty_application(obj)
            IN  IF verifs[v].status \notin {"pending", "requires_changes", "rejected"}
                THEN /\ response' = Reply("RestaurantVerificationUpdateView", "redirect")
                     /\ UNCHANGED verifs
                ELSE IF ~is_restaurant_owner[u]
                THEN /\ response' = Reply("RestaurantVerificationUpdateView", "denied")
                     /\ UNCHANGED verifs
                ELSE /\ verifs' = [verifs EXCEPT ![v] =
                                      IF was_empty THEN obj
                                      ELSE [obj EXCEPT !.status = "pending",
                                                       !.admin_comment = ""]]
                     /\ response' = Reply("RestaurantVerificationUpdateView", "ok")
    /\ UNCHANGED <<now, orderVars, catalogVars, profiles, settings,
                   is_restaurant_owner, vreq>>

\* RestaurantVerificationStatusView.post
RestaurantVerificationStatusView_post(u, action) ==
    /\ Registered(u)
    /\ IF ~is_restaurant_owner[u]
       THEN /\ response' = Reply("RestaurantVerificationStatusView", "denied")
            /\ UNCHANGED <<verifs, profiles, settings, is_restaurant_owner>>
       ELSE IF ~HasVerification(verifs, u)
       THEN /\ response' = Reply("RestaurantVerificationStatusView", "not_found")
            /\ UNCHANGED <<verifs, profiles, settings, is_restaurant_owner>>
       ELSE LET v == VerificationOf(verifs, u)
                r == approve(CurrentDb, v, verifs[v], "", now)
            IN  IF action = "create_restaurant" /\ verifs[v].status = "approved"
                THEN /\ SetDb(r.db)
                     /\ response' = Reply("RestaurantVerificationStatusView",
                                          IF r.raised THEN "error" ELSE "ok")
                ELSE /\ response' = Reply("RestaurantVerificationStatusView", "redirect")
                     /\ UNCHANGED <<verifs, profiles, settings, is_restaurant_owner>>
    /\ UNCHANGED <<now, orderVars, catalogVars, vreq>>

\* RestaurantVerificationAdminUpdateView.form_valid.  self.object is the
\* form's instance, so it already carries the posted status and comment when
\* form_valid reads old_status from it.
RestaurantVerificationAdminUpdateView_post(v, new_status, comment) ==
    /\ v \in DOMAIN verifs
    /\ LET obj == [verifs[v] EXCEPT !.status = new_status, !.admin_comment = comment]
           old_status == obj.status
           saved == [CurrentDb EXCEPT !.verifs = [verifs EXCEPT ![v] = obj]]
           r == IF old_status # "approved" /\ new_status = "approved"
                THEN approve(saved, v, obj, comment, now)
                ELSE IF new_status = "rejected"
                THEN reject(saved, v, obj, comment, now)
                ELSE IF new_status = "requires_changes"
                THEN request_changes(saved, v, obj, comment)
                ELSE [db |-> saved, obj |-> obj, raised |-> FALSE]
       IN  /\ SetDb(r.db)
           /\ response' = Reply("RestaurantVerificationAdminUpdateView",
                                IF r.raised THEN "error" ELSE "ok")
    /\ UNCHANGED <<now, orderVars, catalogVars, vreq>>

\* RestaurantVerificationAdmin.approve_applications, for one selected row
approve_applications(v) ==
    /\ v \in DOMAIN verifs
    /\ verifs[v].status = "pending"
    /\ LET r == approve(CurrentDb, v, verifs[v], BULK_APPROVED, now)
       IN  /\ SetDb(r.db)
           /\ response' = Reply("approve_applications",
                                IF r.raised THEN "error" ELSE "ok")
    /\ UNCHANGED <<now, orderVars, catalogVars, vreq>>

\* RestaurantVerificationAdmin.reject_applications: one UPDATE ... WHERE
reject_applications(v) ==
    /\ v \in DOMAIN verifs
    /\ verifs[v].status = "pending"
    /\ verifs' = [verifs EXCEPT ![v] = [@ EXCEPT !.status = "rejected",
                                                 !.reviewed_at = now,
                                                 !.admin_comment = BULK_REJECTED]]
    /\ response' = Reply("reject_applications", "ok")
    /\ UNCHANGED <<now, orderVars, catalogVars, profiles, settings,
                   is_restaurant_owner, vreq>>

\* RestaurantVerificationAdmin.request_changes: one UPDATE ... WHERE
request_changes_action(v) ==
    /\ v \in DOMAIN verifs
    /\ verifs[v].status = "pending"
    /\ verifs' = [verifs EXCEPT ![v] = [@ EXCEPT !.status = "requires_changes",
                                                 !.admin_comment = BULK_CHANGES]]
    /\ response' = Reply("request_changes", "ok")
    /\ UNCHANGED <<now, orderVars, catalogVars, profiles, settings,
                   is_restaurant_owner, vreq>>

\* RestaurantVerificationAdmin.save_model behind the admin change form
save_model(v, new_status, comment) ==
    /\ v \in DOMAIN verifs
    /\ LET initial_status == verifs[v].status
           obj0 == [verifs[v] EXCEPT !.status = new_status, !.admin_comment = comment]
           changed == obj0.status # initial_status
           obj == IF changed THEN [obj0 EXCEPT !.reviewed_at = now] ELSE obj0
           r == IF changed /\ obj.status = "approved"
                THEN approve(CurrentDb, v, obj, obj.admin_comment, now)
                ELSE IF changed /\ obj.status = "rejected"
                THEN reject(CurrentDb, v, obj, obj.admin_comment, now)
                ELSE IF changed /\ obj.status = "requires_changes"
                THEN request_changes(CurrentDb, v, obj, obj.admin_comment)
                ELSE [db |-> CurrentDb, obj |-> obj, raised |-> FALSE]
           final == [r.db EXCEPT !.verifs = [r.db.verifs EXCEPT ![v] = r.obj]]
       IN  /\ SetDb(final)
           /\ response' = Reply("save_model", IF r.raised THEN "error" ELSE "ok")
    /\ UNCHANGED <<now, orderVars, catalogVars, vreq>>

\* RestaurantProfileCreateView: dispatch, then form_valid
RestaurantProfileCreateView_post(u, d) ==
    /\ Registered(u)
    /\ IF HasProfile(profiles, u)
       THEN /\ response' = Reply("RestaurantProfileCreateView", "redirect")
            /\ UNCHANGED <<profiles, settings>>
       ELSE IF ~ProfileInsertOK(profiles, u)
       THEN /\ response' = Reply("RestaurantProfileCreateView", "error")
            /\ UNCHANGED <<profiles, settings>>
       ELSE /\ profiles' = Append(profiles,
                                  [user |-> u, name |-> d.restaurant_name,
                                   description |-> d.description,
                                   address |-> d.address, phone |-> d.phone,
                                   email |-> d.email])
            /\ settings' = settings \cup {Len(profiles) + 1}
            /\ response' = Reply("RestaurantProfileCreateView", "ok")
    /\ UNCHANGED <<now, orderVars, catalogVars, verifs, is_restaurant_owner, vreq>>

\* RestaurantVerificationEditInfoView: get_object, then form_valid.  The form
\* has no restaurant_address / restaurant_phone fields, so new_data holds ''
\* for address and phone; current_data is read from the instance the form
\* has already written its cleaned fields to.
RestaurantVerificationEditInfoView_post(u, d) ==
    /\ Registered(u)
    /\ IF ~is_restaurant_owner[u]
       THEN /\ response' = Reply("RestaurantVerificationEditInfoView", "denied")
            /\ UNCHANGED verifs
       ELSE IF ~HasVerification(verifs, u)
       THEN /\ response' = Reply("RestaurantVerificationEditInfoView", "not_found")
            /\ UNCHANGED verifs
       ELSE LET v == VerificationOf(verifs, u)
                obj == WithDetails(verifs[v], d)
                current_data == obj.details
                new_data == [restaurant_name |-> d.restaurant_name,
                             address |-> "", phone |-> "",
                             email |-> d.email, description |-> d.description]
            IN  IF verifs[v].status # "approved"
                THEN /\ response' = Reply("RestaurantVerificationEditInfoView", "denied")
                     /\ UNCHANGED verifs
                ELSE /\ verifs' = [verifs EXCEPT ![v] =
                                      IF current_data # new_data
                                      THEN [obj EXCEPT !.status = "pending",
                                                       !.admin_comment = UPDATED_BY_USER]
                                      ELSE obj]
                     /\ response' = Reply("RestaurantVerificationEditInfoView", "ok")
    /\ UNCHANGED <<now, orderVars, catalogVars, profiles, settings,
                   is_restaurant_owner, vreq>>


---------------------------------------------------------------------------
(* core/utils.py: calculate_order_total; orders/models.py: OrderItem and   *)
(* Order.calculate_totals.  Decimal arithmetic is exact; an unrounded      *)
(* amount is kept as a number of 1/Scale cents.                            *)

Scale == 10000

Abs(x) == IF x < 0 THEN -x ELSE x

\* What a DecimalField(decimal_places=2) column holds after an amount of
\* x/Scale cents is stored: the nearest cent, a tie going to the even cent
\* (Django's format_number) or away from zero (a numeric(10,2) column).
Quantize(x, mode) ==
    LET a == Abs(x)
        q == a \div Scale
        r == a % Scale
        up == \/ 2 * r > Scale
              \/ 2 * r = Scale /\ (mode = "half_up" \/ q % 2 = 1)
        m == IF up THEN q + 1 ELSE q
    IN  IF x < 0 THEN -m ELSE m

\* calculate_order_total(subtotal, tax_rate, service_charge), subtotal in
\* cents and the rates in hundredths of a percent; the results in 1/Scale cents.
calculate_order_total(subtotal, tax_rate, service_charge) ==
    LET tax_amount == subtotal * tax_rate
        service_amount == subtotal * service_charge
    IN  [subtotal |-> subtotal * Scale,
         tax_amount |-> tax_amount,
         service_amount |-> service_amount,
         total |-> subtotal * Scale + tax_amount + service_amount]

RECURSIVE SumOver(_, _)
\* sum(f[x] for x in S)
SumOver(f, S) ==
    IF S = {} THEN 0
    ELSE LET x == CHOOSE y \in S : TRUE IN f[x] + SumOver(f, S \ {x})

\* OrderItem.get_options_price: the current price_modifier of every selected
\* option id that the dish still has.
get_options_price(item) ==
    LET dish_options == {i \in DOMAIN options : options[i].dish = item.dish}
        chosen == item.selected_options \cap dish_options
    IN  SumOver([i \in chosen |-> options[i].price_modifier], chosen)

\* OrderItem.get_total_price
get_total_price(item) == (item.unit_price + get_options_price(item)) * item.quantity

\* order.items.all()
ItemsOf(o) == {i \in DOMAIN items : items[i].order = o}

\* Order.calculate_totals on the instance: amounts not yet rounded.
calculate_totals(inst, o) ==
    LET ids == ItemsOf(o)
        subtotal == SumOver([i \in ids |-> get_total_price(items[i])], ids)
        calculation == calculate_order_total(subtotal,
                                             restaurant[inst.restaurant].tax_rate,
                                             restaurant[inst.restaurant].service_charge)
    IN  [inst EXCEPT !.subtotal = subtotal * Scale,
                     !.tax_amount = calculation.tax_amount,
                     !.service_amount = calculation.service_amount,
                     !.total_amount = calculation.total]

\* Order.save() of an instance whose amounts are unrounded: every column is
\* written, the decimal columns rounded by the database layer.
save_order(inst, mode) ==
    [inst EXCEPT !.subtotal = Quantize(@, mode),
                 !.tax_amount = Quantize(@, mode),
                 !.service_amount = Quantize(@, mode),
                 !.total_amount = Quantize(@, mode)]

---------------------------------------------------------------------------
(* orders/views.py: CreateOrderAPIView.post.  No transaction is opened, so *)
(* every INSERT / UPDATE is committed when it is issued.                   *)

MaxOrders == 2

MaxItems == 2

\* generate_order_number(): minute timestamp and three random bytes.
OrderNumbers == {"ORD-A", "ORD-B"}

Restaurants == {"r1", "r2"}

\* Lines a customer may send: dish id, quantity and the options ticked.
ItemInputs ==
    { [dish_id |-> 1, quantity |-> 3, options |-> {1}],
      [dish_id |-> 1, quantity |-> 1, options |-> {}],
      [dish_id |-> 2, quantity |-> 1, options |-> {}],
      [dish_id |-> 3, quantity |-> 1, options |-> {}],
      [dish_id |-> 4, quantity |-> 1, options |-> {}] }

RECURSIVE SeqsUpTo(_, _)
SeqsUpTo(S, n) ==
    IF n = 0 THEN {<<>>}
    ELSE LET shorter == SeqsUpTo(S, n - 1)
         IN  shorter \cup {Append(q, x) : q \in shorter, x \in S}

OrderData == [customer : {"alice"}, items : SeqsUpTo(ItemInputs, MaxItems)]

\* Order.objects.create(...): the field defaults of the model.
NewOrder(r, data, number) ==
    [restaurant |-> r, order_number |-> number, customer |-> data.customer,
     status |-> "pending", subtotal |-> 0, tax_amount |-> 0,
     service_amount |-> 0, total_amount |-> 0, payment_method |-> "",
     is_paid |-> FALSE, paid_at |-> None, confirmed_at |-> None,
     completed_at |-> None, cancelled_at |-> None]

\* The order table without the unique constraint on order_number.
OrderInsertOK_NoUnique(os, number) == TRUE

\* order_number is unique=True: the INSERT raises IntegrityError on a clash.
OrderInsertOK(os, number) == \A o \in DOMAIN os : os[o].order_number # number

\* A dish lookup that does not filter on the restaurant.
DishFound_AnyRestaurant(dish_id, r) ==
    /\ dish_id \in DOMAIN dishes
    /\ dishes[dish_id].is_available

\* get_object_or_404(Dish, id=..., restaurant=restaurant, is_available=True)
DishFound(dish_id, r) ==
    /\ dish_id \in DOMAIN dishes
    /\ dishes[dish_id].restaurant = r
    /\ dishes[dish_id].is_available

\* quantity is a PositiveIntegerField: the column has CHECK (quantity >= 0).
ItemInsertOK(quantity) == quantity >= 0

\* Order.objects.create(...) and the start of the loop over the items
CreateOrderAPIView_create(r, data, number) ==
    /\ creq = Idle
    /\ Len(orders) < MaxOrders
    /\ r \in DOMAIN restaurant
    /\ IF OrderInsertOK(orders, number)
       THEN /\ orders' = Append(orders, NewOrder(r, data, number))
            /\ creq' = [pc |-> "items", order |-> Len(orders) + 1,
                        inst |-> NewOrder(r, data, number),
                        data |-> data, rest |-> data.items]
            /\ UNCHANGED response
       ELSE /\ response' = Reply("CreateOrderAPIView", "error")
            /\ UNCHANGED <<orders, creq>>
    /\ UNCHANGED <<now, items, req, catalogVars, verifVars>>

\* One turn of the loop: the dish lookup and OrderItem.objects.create(...)
CreateOrderAPIView_item ==
    /\ creq.pc = "items"
    /\ creq.rest # <<>>
    /\ LET item_data == Head(creq.rest)
           found == DishFound(item_data.dish_id, creq.inst.restaurant)
       IN  IF found /\ ItemInsertOK(item_data.quantity)
           THEN /\ items' = Append(items,
                                   [order |-> creq.order, dish |-> item_data.dish_id,
                                    quantity |-> item_data.quantity,
                                    unit_price |-> dishes[item_data.dish_id].price,
                                    selected_options |-> {}])
                /\ creq' = [creq EXCEPT !.rest = Tail(@)]
                /\ UNCHANGED response
           ELSE /\ response' = Reply("CreateOrderAPIView", "error")
                /\ creq' = Idle
                /\ UNCHANGED items
    /\ UNCHANGED <<now, orders, req, catalogVars, verifVars>>

\* After the loop: order.calculate_totals(); order.save()
CreateOrderAPIView_save ==
    /\ creq.pc = "items"
    /\ creq.rest = <<>>
    /\ SetOrder(creq.order, save_order(calculate_totals(creq.inst, creq.order), db_rounding))
    /\ response' = Reply("CreateOrderAPIView", "ok")
    /\ creq' = [pc |-> "idle"]
    /\ UNCHANGED <<now, items, req, catalogVars, verifVars>>


---------------------------------------------------------------------------
(* Initial states and specifications                                       *)

NoReply == Reply("none", "none")

\* The menu: two dishes of restaurant r1 on sale, one of them with an
\* option, one dish of r1 that is off the menu and one dish of r2.
MenuInit ==
    /\ dishes = (1 :> [restaurant |-> "r1", price |-> 1000, is_available |-> TRUE]
              @@ 2 :> [restaurant |-> "r1", price |-> 100, is_available |-> TRUE]
              @@ 3 :> [restaurant |-> "r1", price |-> 100, is_available |-> FALSE]
              @@ 4 :> [restaurant |-> "r2", price |-> 1000, is_available |-> TRUE])
    /\ options = (1 :> [dish |-> 1, price_modifier |-> 200])

\* tax_rate and service_charge of the restaurants: 10.00 % and 5.00 %, or
\* 0.40 % each.
RateInputs == { <<1000, 500>>, <<40, 40>> }

Roundings == {"half_even", "half_up"}

FixedCatalogInit ==
    /\ MenuInit
    /\ restaurant = [r \in Restaurants |-> [tax_rate |-> 1000, service_charge |-> 500]]
    /\ db_rounding = "half_even"

NoOrdersInit == orders = <<>> /\ items = <<>> /\ req = Idle /\ creq = Idle

NoVerifInit ==
    /\ verifs = <<>>
    /\ profiles = <<>>
    /\ settings = {}
    /\ is_restaurant_owner = <<>>
    /\ vreq = Idle

\* An order of three dishes 1 as the ordering flow leaves it.
PlacedOrder ==
    [NewOrder("r1", [customer |-> "alice"], "ORD-A") EXCEPT
        !.subtotal = 3000, !.tax_amount = 300, !.service_amount = 150,
        !.total_amount = 3450]

OneOrderInit ==
    /\ orders = <<PlacedOrder>>
    /\ items = <<[order |-> 1, dish |-> 1, quantity |-> 3, unit_price |-> 1000,
                  selected_options |-> {}]>>
    /\ req = Idle
    /\ creq = Idle

(* The owner and the administrator working on a placed order, one request *)
(* at a time.                                                              *)
InitOrder ==
    /\ now = 1
    /\ OneOrderInit
    /\ FixedCatalogInit
    /\ NoVerifInit
    /\ response = NoReply

NextOrder ==
    \/ Tick
    \/ \E o \in DOMAIN orders, s \in StatusInputs : OrderStatusUpdateView_post(o, s)
    \/ \E o \in DOMAIN orders, s \in StatusInputs : OrderStatusAPIView_post(o, s)
    \/ \E o \in DOMAIN orders, m \in MethodInputs : OrderPaymentUpdateView_post(o, m)
    \/ \E o \in DOMAIN orders, d \in OrderUpdateData : OrderUpdateView_post(o, d)
    \/ \E o \in DOMAIN orders, a \in AdminActions : OrderAdmin_action(o, a)

SpecOrder == InitOrder /\ [][NextOrder]_vars

(* Status requests on a placed order, one of them overlapping the others. *)
NextOrderRace ==
    \/ Tick
    \/ \E o \in DOMAIN orders, s \in StatusInputs : OrderStatusUpdateView_post(o, s)
    \/ \E o \in DOMAIN orders, s \in StatusInputs : OrderStatusAPIView_post(o, s)
    \/ \E o \in DOMAIN orders, a \in AdminActions : OrderAdmin_action(o, a)
    \/ \E o \in DOMAIN orders, h \in {"OrderStatusUpdateView", "OrderStatusAPIView"} :
          StatusView_get_object(o, h)
    \/ \E o \in DOMAIN orders, a \in AdminActions : OrderAdmin_queryset(o, a)
    \/ \E s \in StatusInputs : StatusView_update_status(s)
    \/ OrderAdmin_update_status

SpecOrderRace == InitOrder /\ [][NextOrderRace]_vars

(* Customers placing orders.                                               *)
InitCreate ==
    /\ now = 1
    /\ NoOrdersInit
    /\ MenuInit
    /\ \E rates \in RateInputs :
          restaurant = [r \in Restaurants |->
                           [tax_rate |-> rates[1], service_charge |-> rates[2]]]
    /\ db_rounding \in Roundings
    /\ NoVerifInit
    /\ response = NoReply

NextCreate ==
    \/ \E d \in OrderData, n \in OrderNumbers : CreateOrderAPIView_create("r1", d, n)
    \/ CreateOrderAPIView_item
    \/ CreateOrderAPIView_save

SpecCreate == InitCreate /\ [][NextCreate]_vars

(* Users, applications and the administrator reviewing them.               *)
InitVerif ==
    /\ now = 1
    /\ NoOrdersInit
    /\ FixedCatalogInit
    /\ NoVerifInit
    /\ response = NoReply

NextVerif ==
    \/ \E u \in Users, o \in BOOLEAN, d \in {FirstDetails} : SignUpView_form_valid(u, o, d)
    \/ \E u \in Users, d \in {FirstDetails} : RestaurantVerificationCreateView_post(u, d)
    \/ \E u \in Users, d \in {FirstDetails} : RestaurantVerificationUpdateView_post(u, d)
    \/ \E u \in Users, a \in {"create_restaurant", "edit_application"} :
          RestaurantVerificationStatusView_post(u, a)
    \/ \E v \in DOMAIN verifs, s \in VERIFICATION_STATUS_CHOICES, c \in CommentInputs :
          RestaurantVerificationAdminUpdateView_post(v, s, c)
    \/ \E v \in DOMAIN verifs : approve_applications(v)
    \/ \E v \in DOMAIN verifs : reject_applications(v)
    \/ \E v \in DOMAIN verifs : request_changes_action(v)
    \/ \E v \in DOMAIN verifs, s \in VERIFICATION_STATUS_CHOICES, c \in CommentInputs :
          save_model(v, s, c)
    \/ \E u \in Users, d \in {FirstDetails} : RestaurantProfileCreateView_post(u, d)
    \/ \E u \in Users, d \in {FirstDetails} : RestaurantVerificationEditInfoView_post(u, d)

SpecVerif == InitVerif /\ [][NextVerif]_vars

---------------------------------------------------------------------------
(* Properties                                                              *)

TerminalStatuses == {"completed", "cancelled"}

\* The transition graph of the specification: the linear path and a
\* cancellation from every status that is not terminal.
AllowedNext(status) ==
    CASE status = "pending"   -> {"confirmed", "cancelled"}
      [] status = "confirmed" -> {"preparing", "cancelled"}
      [] status = "preparing" -> {"ready", "cancelled"}
      [] status = "ready"     -> {"completed", "cancelled"}
      [] OTHER -> {}

\* C1: once an order is completed or cancelled, no request changes its
\* status: every step leaves the status of a terminal order as it was.
C1_TerminalStatusIsFinal ==
    [][\A o \in DOMAIN orders :
          orders[o].status \in TerminalStatuses
             => orders'[o].status = orders[o].status]_vars

\* C2: an order's status only moves along the allowed graph: a step that
\* changes the status goes to a status allowed after the current one.
C2_StatusFollowsGraph ==
    [][\A o \in DOMAIN orders :
          orders'[o].status # orders[o].status
             => orders'[o].status \in AllowedNext(orders[o].status)]_vars

\* C3: the read-validate-write of a transition is atomic: a transition
\* request that succeeds writes over the status it read, so of two requests
\* that read the same status at most one succeeds.
C3_TransitionsSerialize ==
    [][(req.pc = "loaded" /\ req'.pc = "idle" /\ response'.outcome = "ok")
          => orders[req.order].status = req.inst.status]_vars

\* A step in which some handler calls approve() on application v.
ApproveCalled(v) ==
    \/ approve_applications(v)
    \/ /\ verifs[v].status = "approved"
       /\ RestaurantVerificationStatusView_post(verifs[v].user, "create_restaurant")
       /\ response'.outcome \in {"ok", "error"}
    \/ /\ verifs[v].status # "approved"
       /\ \E c \in CommentInputs : save_model(v, "approved", c)

\* approve() on v committed everything: the status, a new profile of the
\* user, the settings of that profile and the owner flag.
ApproveCommitted(v) ==
    /\ verifs'[v].status = "approved"
    /\ Len(profiles') = Len(profiles) + 1
    /\ profiles'[Len(profiles')].user = verifs[v].user
    /\ Len(profiles') \in settings'
    /\ is_restaurant_owner'[verifs[v].user]

\* C4: approve() is all-or-nothing: a step that calls approve() commits the
\* application's status write, the profile, its settings and the owner flag
\* together, or leaves the application, the profiles, the settings and the
\* flag as they were.
C4_ApproveAllOrNothing ==
    [][\A v \in DOMAIN verifs :
          ApproveCalled(v)
             => \/ ApproveCommitted(v)
                \/ UNCHANGED <<verifs, profiles, settings, is_restaurant_owner>>]_vars

AtMostOneProfilePerUser ==
    \A i, j \in DOMAIN profiles : profiles[i].user = profiles[j].user => i = j

\* C5: approve() on an application whose user already owns a profile fails
\* with an error and creates no profile, and after every step each user has
\* at most one RestaurantProfile.
C5_NoSecondProfile ==
    [][/\ AtMostOneProfilePerUser'
       /\ \A v \in DOMAIN verifs :
             (ApproveCalled(v) /\ HasProfile(profiles, verifs[v].user))
                => (response'.outcome = "error" /\ profiles' = profiles)]_vars

\* approve() has just failed on an approved application whose user owns a
\* profile.
C5_Witness ==
    /\ response = Reply("RestaurantVerificationStatusView", "error")
    /\ \E v \in DOMAIN verifs :
          /\ verifs[v].status = "approved"
          /\ Cardinality({i \in DOMAIN profiles : profiles[i].user = verifs[v].user}) = 1

\* C6: an application becomes approved, rejected or requires_changes only
\* from pending: a step that changes the status to one of the three starts
\* from pending.
C6_ReviewOnlyFromPending ==
    [][\A v \in DOMAIN verifs :
          (/\ verifs'[v].status # verifs[v].status
           /\ verifs'[v].status \in {"approved", "rejected", "requires_changes"})
             => verifs[v].status = "pending"]_vars

\* C7: every persisted order has total_amount = subtotal + tax_amount +
\* service_amount on the stored values.
C7_TotalIsSumOfParts ==
    \A o \in DOMAIN orders :
        orders[o].total_amount
           = orders[o].subtotal + orders[o].tax_amount + orders[o].service_amount

WithinOneCent(stored, exact) == Abs(stored * Scale - exact) <= Scale

\* The order's lines as they are stored.
StoredSubtotal(o) ==
    SumOver([i \in ItemsOf(o) |-> get_total_price(items[i])], ItemsOf(o))

\* C8: for every order the ordering flow has created, the stored subtotal is
\* the sum over its items of (unit_price + options price) * quantity, the tax
\* and the service amount are subtotal * rate / 100 and the total is their
\* sum, each within one cent.
C8_TotalsMatchItems ==
    \A o \in DOMAIN orders :
        (creq.pc = "idle" \/ creq.order # o)
           => LET row == orders[o]
                  rates == restaurant[row.restaurant]
              IN  /\ row.subtotal = StoredSubtotal(o)
                  /\ WithinOneCent(row.tax_amount, row.subtotal * rates.tax_rate)
                  /\ WithinOneCent(row.service_amount, row.subtotal * rates.service_charge)
                  /\ Abs(row.total_amount
                         - (row.subtotal + row.tax_amount + row.service_amount)) <= 1

\* C9: order creation is all-or-nothing: when the request fails on one of
\* its items, neither its Order nor any of its OrderItems is persisted.
C9_CreationAllOrNothing ==
    [][(creq.pc = "items" /\ creq'.pc = "idle" /\ response'.outcome = "error")
          => /\ creq.order \notin DOMAIN orders'
             /\ \A i \in DOMAIN items' : items'[i].order # creq.order]_vars

\* C10: a confirmed order has confirmed_at set, a completed order has
\* completed_at set and a cancelled order has cancelled_at set.
C10_StatusHasTimestamp ==
    \A o \in DOMAIN orders :
        /\ orders[o].status = "confirmed" => orders[o].confirmed_at # None
        /\ orders[o].status = "completed" => orders[o].completed_at # None
        /\ orders[o].status = "cancelled" => orders[o].cancelled_at # None

\* A step of one of the owner-facing operations on order o.
OwnerRequest(o) ==
    \/ \E s \in StatusInputs : OrderStatusUpdateView_post(o, s)
    \/ \E s \in StatusInputs : OrderStatusAPIView_post(o, s)
    \/ \E d \in OrderUpdateData : OrderUpdateView_post(o, d)

\* C11: through the owner-facing operations (the status view, the status
\* API, the edit form) an order becomes cancelled only when can_cancel()
\* held, that is from pending or confirmed.
C11_OwnerCancelNeedsCanCancel ==
    [][\A o \in DOMAIN orders :
          (/\ OwnerRequest(o)
           /\ orders[o].status # "cancelled"
           /\ orders'[o].status = "cancelled")
             => can_cancel(orders[o])]_vars

\* C12: the edit operation changes the customer info, table number and
\* special requests of an order only while can_modify() holds.
C12_EditNeedsCanModify ==
    [][\A o \in DOMAIN orders :
          ((\E d \in OrderUpdateData : OrderUpdateView_post(o, d))
           /\ ~can_modify(orders[o]))
             => orders'[o].customer = orders[o].customer]_vars

(* Owners filling in, resubmitting and editing their applications, with    *)
(* both detail inputs, and the administrator reviewing them.               *)
NextResubmit ==
    \/ \E u \in Users, o \in BOOLEAN : SignUpView_form_valid(u, o, FirstDetails)
    \/ \E u \in Users, d \in DetailInputs : RestaurantVerificationCreateView_post(u, d)
    \/ \E u \in Users, d \in DetailInputs : RestaurantVerificationUpdateView_post(u, d)
    \/ \E u \in Users, d \in DetailInputs : RestaurantVerificationEditInfoView_post(u, d)
    \/ \E v \in DOMAIN verifs : approve_applications(v)
    \/ \E v \in DOMAIN verifs : reject_applications(v)
    \/ \E v \in DOMAIN verifs : request_changes_action(v)

SpecResubmit == InitVerif /\ [][NextResubmit]_vars

\* C13: a post-approval edit resets the application to pending, with the
\* re-review marker as comment, exactly when one of the five details
\* differs from the stored record; an edit with the identical values leaves
\* the status approved and the admin comment as it was.
C13_EditResetsIffChanged ==
    [][\A u \in Users, d \in DetailInputs :
          (/\ RestaurantVerificationEditInfoView_post(u, d)
           /\ HasVerification(verifs, u)
           /\ verifs[VerificationOf(verifs, u)].status = "approved"
           /\ response'.outcome = "ok")
             => LET v == VerificationOf(verifs, u)
                IN  IF d # verifs[v].details
                    THEN /\ verifs'[v].status = "pending"
                         /\ verifs'[v].admin_comment = UPDATED_BY_USER
                    ELSE /\ verifs'[v].status = "approved"
                         /\ verifs'[v].admin_comment = verifs[v].admin_comment]_vars

AtMostOneVerificationPerUser ==
    \A i, j \in DOMAIN verifs : verifs[i].user = verifs[j].user => i = j

\* C15: each user has at most one application, and a submit is blocked
\* exactly by a pending or approved application: it then changes nothing,
\* while a submit over a rejected or requires_changes application is
\* accepted and leaves the user's single application pending.
C15_SubmitBlockedByPendingOrApproved ==
    [][/\ AtMostOneVerificationPerUser'
       /\ \A u \in Users, d \in DetailInputs :
             (RestaurantVerificationCreateView_post(u, d) /\ HasVerification(verifs, u))
                => LET v == VerificationOf(verifs, u)
                   IN  IF verifs[v].status \in {"pending", "approved"}
                       THEN UNCHANGED <<verifs, profiles, settings, is_restaurant_owner>>
                       ELSE /\ response'.outcome = "ok"
                            /\ HasVerification(verifs', u)
                            /\ verifs'[VerificationOf(verifs', u)].status = "pending"]_vars

(* Status requests, one of them overlapping the others, and payment        *)
(* requests, all at one instant of the clock.                              *)
NextOrderOverlap ==
    \/ \E o \in DOMAIN orders, s \in StatusInputs : OrderStatusUpdateView_post(o, s)
    \/ \E o \in DOMAIN orders, m \in MethodInputs : OrderPaymentUpdateView_post(o, m)
    \/ \E o \in DOMAIN orders : StatusView_get_object(o, "OrderStatusUpdateView")
    \/ \E o \in DOMAIN orders, a \in AdminActions : OrderAdmin_queryset(o, a)
    \/ \E s \in StatusInputs : StatusView_update_status(s)
    \/ OrderAdmin_update_status

SpecOrderOverlap == InitOrder /\ [][NextOrderOverlap]_vars

\* C16: mark_paid is idempotent: a payment request naming the method an
\* already paid order was paid with leaves is_paid, paid_at and
\* payment_method as they were.
C16_MarkPaidIdempotent ==
    [][\A o \in DOMAIN orders, m \in MethodInputs :
          (/\ OrderPaymentUpdateView_post(o, m)
           /\ orders[o].is_paid
           /\ orders[o].payment_method = m)
             => /\ response'.outcome = "ok"
                /\ \A f \in PaymentFields : orders'[o][f] = orders[o][f]]_vars

\* C17: marking an order as paid sets is_paid and paid_at and stores the
\* method passed, the empty one too, whatever payment_method held before;
\* unmarking clears all three fields.
C17_PaymentFieldsFollowRequest ==
    [][\A o \in DOMAIN orders, m \in MethodInputs :
          OrderPaymentUpdateView_post(o, m)
             => IF ~orders[o].is_paid
                THEN /\ orders'[o].is_paid
                     /\ orders'[o].paid_at # None
                     /\ orders'[o].payment_method = m
                ELSE /\ ~orders'[o].is_paid
                     /\ orders'[o].paid_at = None
                     /\ orders'[o].payment_method = ""]_vars

\* A step in which a status transition of order o is written.
StatusRequest(o) ==
    \/ \E s \in StatusInputs : OrderStatusUpdateView_post(o, s)
    \/ \E s \in StatusInputs : OrderStatusAPIView_post(o, s)
    \/ \E a \in AdminActions : OrderAdmin_action(o, a)
    \/ /\ req.pc = "loaded"
       /\ req.order = o
       /\ \/ \E s \in StatusInputs : StatusView_update_status(s)
          \/ OrderAdmin_update_status

\* C18: status and payment are independent: a status transition changes
\* nothing but the status and the three audit timestamps, and a payment
\* request is accepted in every status and changes nothing but is_paid,
\* paid_at and payment_method.
C18_StatusAndPaymentIndependent ==
    [][\A o \in DOMAIN orders :
          /\ StatusRequest(o)
                => \A f \in (DOMAIN orders[o]) \ StatusFields :
                      orders'[o][f] = orders[o][f]
          /\ \A m \in MethodInputs :
                OrderPaymentUpdateView_post(o, m)
                   => /\ response'.outcome = "ok"
                      /\ orders'[o].is_paid = ~orders[o].is_paid
                      /\ \A f \in (DOMAIN orders[o]) \ PaymentFields :
                            orders'[o][f] = orders[o][f]]_vars

\* A completed order that has just been marked as paid: the transitions
\* left the totals alone and the payment was accepted after the last one.
C18_Witness ==
    /\ response = Reply("OrderPaymentUpdateView", "ok")
    /\ \E o \in DOMAIN orders :
          /\ orders[o].status = "completed"
          /\ orders[o].completed_at # None
          /\ orders[o].is_paid
          /\ orders[o].total_amount = PlacedOrder.total_amount

UniqueOrderNumbers ==
    \A i, j \in DOMAIN orders :
        orders[i].order_number = orders[j].order_number => i = j

\* C19: no two persisted orders share an order_number: a creation whose
\* generated number is the number of an existing order fails with an error
\* and leaves the orders and their items as they were.
C19_OrderNumberUnique ==
    [][/\ UniqueOrderNumbers'
       /\ \A d \in OrderData, n \in OrderNumbers :
             (CreateOrderAPIView_create("r1", d, n) /\ ~OrderInsertOK(orders, n))
                => /\ response'.outcome = "error"
                   /\ orders' = orders
                   /\ items' = items]_vars

\* A creation has failed without leaving an order behind, after an order
\* with items was placed and priced: the failure was a clash of numbers.
C19_Witness ==
    /\ response = Reply("CreateOrderAPIView", "error")
    /\ creq = Idle
    /\ Len(orders) = 1
    /\ orders[1].subtotal > 0
    /\ orders[1].subtotal = StoredSubtotal(1)

---------------------------------------------------------------------------
(* menu/views.py, menu/admin.py, orders/models.py: the menu changing under *)
(* an order whose items were added with their options.                     *)

\* Dish prices a dish form accepts (clean_price: greater than zero).
PriceInputs == {1000, 1500}

\* Price modifiers of an option: the field has no validator and may be
\* negative.
ModifierInputs == {200, 300, -1500}

\* OrderItem.create_from_dish(order, dish, quantity, options): the options
\* are stored by id; unit_price is the dish's price at that moment.
OrderItem_create_from_dish(o, dish, quantity, opts) ==
    /\ Len(items) < MaxItems
    /\ dish \in DOMAIN dishes
    /\ ItemInsertOK(quantity)
    /\ items' = Append(items,
                       [order |-> o, dish |-> dish, quantity |-> quantity,
                        unit_price |-> dishes[dish].price,
                        selected_options |-> opts])
    /\ response' = Reply("create_from_dish", "ok")
    /\ UNCHANGED <<now, orders, req, creq, catalogVars, verifVars>>

\* order.calculate_totals(); order.save()
Order_calculate_totals(o) ==
    /\ SetOrder(o, save_order(calculate_totals(orders[o], o), db_rounding))
    /\ response' = Reply("calculate_totals", "ok")
    /\ UNCHANGED <<now, items, req, creq, catalogVars, verifVars>>

\* DishUpdateView: the owner changes the price of a dish.
DishUpdateView_post(dish, price) ==
    /\ dish \in DOMAIN dishes
    /\ dishes' = [dishes EXCEPT ![dish].price = price]
    /\ response' = Reply("DishUpdateView", "ok")
    /\ UNCHANGED <<now, orderVars, options, restaurant, db_rounding, verifVars>>

\* DishOptionInline / DishOptionAdmin: price_modifier of an option is edited.
DishOptionAdmin_save(opt, price_modifier) ==
    /\ opt \in DOMAIN options
    /\ options' = [options EXCEPT ![opt].price_modifier = price_modifier]
    /\ response' = Reply("DishOptionAdmin", "ok")
    /\ UNCHANGED <<now, orderVars, dishes, restaurant, db_rounding, verifVars>>

\* DishOptionInline / DishOptionAdmin: an option is deleted.
DishOptionAdmin_delete(opt) ==
    /\ opt \in DOMAIN options
    /\ options' = [i \in (DOMAIN options) \ {opt} |-> options[i]]
    /\ response' = Reply("DishOptionAdmin", "deleted")
    /\ UNCHANGED <<now, orderVars, dishes, restaurant, db_rounding, verifVars>>

InitSnapshot ==
    /\ now = 1
    /\ orders = <<NewOrder("r1", [customer |-> "alice"], "ORD-A")>>
    /\ items = <<>>
    /\ req = Idle
    /\ creq = Idle
    /\ FixedCatalogInit
    /\ NoVerifInit
    /\ response = NoReply

NextSnapshot ==
    \/ \E o \in DOMAIN orders, dish \in {1, 2}, q \in {1, 3}, opts \in {{}, {1}} :
          OrderItem_create_from_dish(o, dish, q, opts)
    \/ \E o \in DOMAIN orders : Order_calculate_totals(o)
    \/ \E dish \in {1, 2}, p \in PriceInputs : DishUpdateView_post(dish, p)
    \/ \E opt \in DOMAIN options, m \in ModifierInputs : DishOptionAdmin_save(opt, m)
    \/ \E opt \in DOMAIN options : DishOptionAdmin_delete(opt)

SpecSnapshot == InitSnapshot /\ [][NextSnapshot]_vars

\* C21: an item's price is a snapshot: a step that changes a dish price or
\* an option (its price_modifier, or its removal) changes no item's
\* unit_price, no item's options price and no totals that calculate_totals
\* computes for an order.
C21_ItemPriceIsSnapshot ==
    [][(dishes' # dishes \/ options' # options)
          => /\ \A i \in DOMAIN items :
                   /\ items'[i].unit_price = items[i].unit_price
                   /\ get_options_price(items[i])' = get_options_price(items[i])
             /\ \A o \in DOMAIN orders :
                   calculate_totals(orders[o], o)' = calculate_totals(orders[o], o)]_vars

\* C22: the total_amount of every order is at least zero.
C22_TotalNotNegative ==
    \A o \in DOMAIN orders : orders[o].total_amount >= 0

---------------------------------------------------------------------------
(* Customers placing orders whose items carry a quantity of 1, 0 or -1.    *)

\* int(item_data.get('quantity', 1)) of a request: any integer.
QuantityInputs == {1, 0, -1}

QuantityOrderData ==
    [customer : {"alice"},
     items : SeqsUpTo({[dish_id |-> 1, quantity |-> q] : q \in QuantityInputs}
                         \cup {[dish_id |-> 2, quantity |-> 1]},
                      MaxItems)]

NextQuantity ==
    \/ \E d \in QuantityOrderData, n \in OrderNumbers : CreateOrderAPIView_create("r1", d, n)
    \/ CreateOrderAPIView_item
    \/ CreateOrderAPIView_save

SpecQuantity == InitCreate /\ [][NextQuantity]_vars

\* C23: every persisted OrderItem has a quantity of at least 1.
C23_QuantityAtLeastOne ==
    \A i \in DOMAIN items : items[i].quantity >= 1

---------------------------------------------------------------------------
(* core/utils.py: calculate_order_total called on its own.                 *)

\* Subtotals in cents and rates in hundredths of a percent, in range and out
\* of range.
SubtotalInputs == {-100, 0, 100, 1000, 3600}

PercentInputs == {-100, 0, 500, 1000, 10000, 10100}

\* calculate_order_total(subtotal, tax_rate, service_charge): the function
\* has no raise statement and no division by a variable, so it returns its
\* dict for every numeric input.
calculate_order_total_call(subtotal, tax_rate, service_charge) ==
    /\ response' = [handler |-> "calculate_order_total", outcome |-> "ok",
                    args |-> <<subtotal, tax_rate, service_charge>>,
                    result |-> calculate_order_total(subtotal, tax_rate, service_charge)]
    /\ UNCHANGED <<now, orderVars, catalogVars, verifVars>>

InitPricing ==
    /\ now = 1
    /\ NoOrdersInit
    /\ FixedCatalogInit
    /\ NoVerifInit
    /\ response = NoReply

NextPricing ==
    \E s \in SubtotalInputs, t \in PercentInputs, c \in PercentInputs :
        calculate_order_total_call(s, t, c)

SpecPricing == InitPricing /\ [][NextPricing]_vars

\* A negative subtotal, or a rate outside 0..100 percent.
InvalidPricingInput(args) ==
    \/ args[1] < 0
    \/ args[2] < 0 \/ args[2] > 100 * 100
    \/ args[3] < 0 \/ args[3] > 100 * 100

\* C24: the pricing calculation fails with an error exactly when the
\* subtotal is negative or a rate lies outside [0, 100]; for every other
\* input it returns its totals.
C24_PricingRejectsInvalidInput ==
    response.handler = "calculate_order_total"
       => (response.outcome = "error") = InvalidPricingInput(response.args)

\* C25: request_changes does not touch reviewed_at: a step that takes a
\* pending application to requires_changes leaves reviewed_at as it was.
C25_RequestChangesKeepsReviewedAt ==
    [][\A v \in DOMAIN verifs :
          (verifs[v].status = "pending" /\ verifs'[v].status = "requires_changes")
             => verifs'[v].reviewed_at = verifs[v].reviewed_at]_vars

\* C26: the audit timestamps are monotonic: a timestamp that is set stays
\* set in every later state, whatever requests overlap.
C26_TimestampsStaySet ==
    [][\A o \in DOMAIN orders :
          \A f \in {"confirmed_at", "completed_at", "cancelled_at"} :
             orders[o][f] # None => orders'[o][f] # None]_vars

---------------------------------------------------------------------------
(* verification/admin.py, verification/views.py: the bulk action           *)
(* approve_applications and a rejecting (or change-requesting) post to     *)
(* RestaurantVerificationAdminUpdateView, both started on the same pending *)
(* application.  vreq keeps how far each of the two requests has come.     *)

\* Both requests SELECT the pending application v.
VerificationRace_load(v, new_status, comment) ==
    /\ vreq = Idle
    /\ v \in DOMAIN verifs
    /\ verifs[v].status = "pending"
    /\ new_status \in {"rejected", "requires_changes"}
    /\ vreq' = [pc |-> "race", v |-> v, inst |-> verifs[v],
                a |-> "loaded", r |-> "loaded",
                new_status |-> new_status, comment |-> comment]
    /\ UNCHANGED <<now, orderVars, catalogVars, verifs, profiles, settings,
                   is_restaurant_owner, response>>

\* approve(): self.status = 'approved'; ...; self.save()
approve_save ==
    /\ vreq.pc = "race"
    /\ vreq.a = "loaded"
    /\ verifs' = [verifs EXCEPT ![vreq.v] =
                     [vreq.inst EXCEPT !.status = "approved", !.reviewed_at = now,
                                       !.admin_comment = BULK_APPROVED]]
    /\ vreq' = [vreq EXCEPT !.a = "saved"]
    /\ UNCHANGED <<now, orderVars, catalogVars, profiles, settings,
                   is_restaurant_owner, response>>

\* approve(): the profile INSERT, the settings INSERT and user.save()
approve_provision ==
    /\ vreq.pc = "race"
    /\ vreq.a = "saved"
    /\ LET r == approve(CurrentDb, vreq.v, vreq.inst, BULK_APPROVED, now)
       IN  /\ profiles' = r.db.profiles
           /\ settings' = r.db.settings
           /\ is_restaurant_owner' = r.db.owner
           /\ response' = Reply("approve_applications",
                                IF r.raised THEN "error" ELSE "ok")
    /\ vreq' = [vreq EXCEPT !.a = "done"]
    /\ UNCHANGED <<now, orderVars, catalogVars, verifs>>

\* RestaurantVerificationAdminUpdateView.form_valid of the other request:
\* the form's save and the save of reject() / request_changes(), both of the
\* instance the view loaded.
AdminUpdateView_form_valid ==
    /\ vreq.pc = "race"
    /\ vreq.r = "loaded"
    /\ LET obj == [vreq.inst EXCEPT !.status = vreq.new_status,
                                    !.admin_comment = vreq.comment]
           saved == [CurrentDb EXCEPT !.verifs = [verifs EXCEPT ![vreq.v] = obj]]
           r == IF vreq.new_status = "rejected"
                THEN reject(saved, vreq.v, obj, vreq.comment, now)
                ELSE request_changes(saved, vreq.v, obj, vreq.comment)
       IN  /\ verifs' = r.db.verifs
           /\ response' = Reply("RestaurantVerificationAdminUpdateView", "ok")
    /\ vreq' = [vreq EXCEPT !.r = "done"]
    /\ UNCHANGED <<now, orderVars, catalogVars, profiles, settings,
                   is_restaurant_owner>>

\* Both requests have answered.
VerificationRace_end ==
    /\ vreq.pc = "race"
    /\ vreq.a = "done"
    /\ vreq.r = "done"
    /\ vreq' = Idle
    /\ UNCHANGED <<now, orderVars, catalogVars, verifs, profiles, settings,
                   is_restaurant_owner, response>>

NextVerifRace ==
    \/ \E u \in Users, o \in BOOLEAN : SignUpView_form_valid(u, o, FirstDetails)
    \/ \E v \in DOMAIN verifs, s \in {"rejected", "requires_changes"},
          c \in CommentInputs : VerificationRace_load(v, s, c)
    \/ approve_save
    \/ approve_provision
    \/ AdminUpdateView_form_valid
    \/ VerificationRace_end

SpecVerifRace == InitVerif /\ [][NextVerifRace]_vars

\* C27: when an approve and a reject (or request_changes) started on the
\* same pending application have both answered, the application is approved
\* and its user has a profile, or it is rejected / requires_changes and its
\* user has no profile.
C27_ApproveRejectRaceIsSequential ==
    (vreq.pc = "race" /\ vreq.a = "done" /\ vreq.r = "done")
       => LET row == verifs[vreq.v]
          IN  \/ row.status = "approved" /\ HasProfile(profiles, row.user)
              \/ /\ row.status \in {"rejected", "requires_changes"}
                 /\ ~HasProfile(profiles, row.user)

---------------------------------------------------------------------------
(* orders/views.py: an order being created by CreateOrderAPIView while the *)
(* restaurant's staff already confirm it or mark it as paid.               *)
NextCreateOverlap ==
    \/ \E d \in OrderData, n \in OrderNumbers : CreateOrderAPIView_create("r1", d, n)
    \/ CreateOrderAPIView_item
    \/ CreateOrderAPIView_save
    \/ \E o \in DOMAIN orders : OrderStatusUpdateView_post(o, "confirmed")
    \/ \E o \in DOMAIN orders : OrderPaymentUpdateView_post(o, "cash")

SpecCreateOverlap == InitCreate /\ [][NextCreateOverlap]_vars

\* C28: the creation request's final save of the totals leaves the status,
\* the audit timestamps and the payment fields of the order as they are in
\* the database at that moment.
C28_CreationSaveKeepsStatusAndPayment ==
    [][CreateOrderAPIView_save =>
          \A f \in StatusFields \cup PaymentFields :
             orders'[creq.order][f] = orders[creq.order][f]]_vars

---------------------------------------------------------------------------
(* The user-side operations, with an administrator who rejects or asks for *)
(* changes but never approves: no application is approved in any behaviour.*)
NextUnapproved ==
    \/ \E u \in Users, o \in BOOLEAN : SignUpView_form_valid(u, o, FirstDetails)
    \/ \E u \in Users : RestaurantVerificationCreateView_post(u, FirstDetails)
    \/ \E u \in Users : RestaurantVerificationUpdateView_post(u, FirstDetails)
    \/ \E u \in Users, a \in {"create_restaurant", "edit_application"} :
          RestaurantVerificationStatusView_post(u, a)
    \/ \E u \in Users : RestaurantVerificationEditInfoView_post(u, FirstDetails)
    \/ \E u \in Users : RestaurantProfileCreateView_post(u, FirstDetails)
    \/ \E v \in DOMAIN verifs : reject_applications(v)
    \/ \E v \in DOMAIN verifs : request_changes_action(v)

SpecUnapproved == InitVerif /\ [][NextUnapproved]_vars

\* C29: a user has a RestaurantProfile only if that user's application is
\* approved; where no application is ever approved, no user has a profile.
C29_ProfileOnlyAfterApproval ==
    \A u \in Users :
       HasProfile(profiles, u)
          => /\ HasVerification(verifs, u)
             /\ VerificationOf(verifs, u).status = "approved"

\* C30: in every state, an order's is_paid is true exactly when its paid_at
\* is set, whichever operation last changed the payment fields.
C30_PaidIffPaidAt ==
    \A o \in DOMAIN orders : orders[o].is_paid <=> orders[o].paid_at # None

===========================================================================
